---- MODULE Spec2Model ----
(***************************************************************************)
(* miniconf: run-time settings over MQTT.                                  *)
(*                                                                         *)
(* Two parts are modelled:                                                 *)
(*   - the path tree engine (string_set / string_get / get_metadata /      *)
(*     recurse_paths) with the array adapter of src/array.rs;              *)
(*   - the settings session of src/mqtt_client/mqtt_client.rs: the smlang  *)
(*     state machine, handled_update, the republish drain and the handling *)
(*     of inbound set requests.                                            *)
(*                                                                         *)
(* Text (topics, path segments, payloads) is a sequence of one-character   *)
(* strings, so that formatting an index and parsing one are computations.  *)
(***************************************************************************)
EXTENDS Integers, Sequences, FiniteSets, TLC

(***************************************************************************)
(* Bounds of the model.                                                    *)
(***************************************************************************)
\* Largest array length of the trees enumerated in SpecTree.
MaxLen == 11
\* Largest array length of the arrays addressed in SpecArray.
MaxN == 3
\* Largest clock reading (seconds).
MaxClock == 3
\* Largest number of publishes the transport takes in one tick before
\* can_publish turns false.
MaxBudget == 4
\* Largest number of inbound messages one poll delivers.
MaxMsgs == 2
\* The same, while the connection's life cycle is explored.
MaxLifecycleMsgs == 1
\* Largest number of calls of the iterator on a tree that is a single leaf.
MaxVisits == 3
\* Sets applied to one tree of the path-iterator specification.
MaxSets == 1
\* Calls of handled_update counted since the session was last in Initial.
MaxTicks == 5

(***************************************************************************)
(* Program constants.                                                      *)
(***************************************************************************)
MAX_TOPIC_LENGTH == 128
MAX_RECURSION_DEPTH == 8
REPUBLISH_TIMEOUT_SECONDS == 2

(***************************************************************************)
(* Text.                                                                   *)
(***************************************************************************)
Digits == <<"0", "1", "2", "3", "4", "5", "6", "7", "8", "9">>

DigitSet == {Digits[i] : i \in 1..10}

\* The bytes serde_json_core's parse_whitespace skips.
Whitespace == {" ", "\t", "\n", "\r"}

DigitVal(c) ==
    (CHOOSE i \in 1..10 : Digits[i] = c) - 1

RECURSIVE FmtUsize(_)
\* write!(topic, "{}", n): n in base ten, no sign, no leading zeros.
FmtUsize(n) ==
    IF n < 10 THEN <<Digits[n + 1]>>
    ELSE FmtUsize(n \div 10) \o <<Digits[(n % 10) + 1]>>

RECURSIVE SkipWhitespace(_)
SkipWhitespace(s) ==
    IF s # <<>> /\ Head(s) \in Whitespace THEN SkipWhitespace(Tail(s)) ELSE s

RECURSIVE ParseDigits(_, _)
\* The digit loop of deserialize_unsigned: eats digits, accumulating
\* base ten, and stops at the first other byte.  (Segments of the model are
\* too short for checked_mul / checked_add to overflow a usize.)
ParseDigits(s, number) ==
    IF s # <<>> /\ Head(s) \in DigitSet
    THEN ParseDigits(Tail(s), number * 10 + DigitVal(Head(s)))
    ELSE [val |-> number, rest |-> s]

\* serde_json_core::from_str::<usize>(s): leading whitespace is skipped; "-"
\* and every byte that is no digit is an error; "0" is the number 0 on its
\* own; a number starting 1-9 takes all following digits; then end() skips
\* whitespace and refuses any trailing byte.
FromStrUsize(s) ==
    LET t == SkipWhitespace(s)
    IN  IF t = <<>> THEN [ok |-> FALSE, val |-> 0]
        ELSE IF Head(t) = "0"
             THEN [ok |-> SkipWhitespace(Tail(t)) = <<>>, val |-> 0]
        ELSE IF Head(t) \in DigitSet
             THEN LET p == ParseDigits(Tail(t), DigitVal(Head(t)))
                  IN  [ok |-> SkipWhitespace(p.rest) = <<>>, val |-> p.val]
        ELSE [ok |-> FALSE, val |-> 0]

RECURSIVE SplitFrom(_, _)
\* str::split('/') : the segments between separators; "" gives one empty
\* segment, "a//b" gives "a", "", "b".
SplitFrom(s, cur) ==
    IF \A i \in 1..Len(s) : s[i] # "/" THEN <<cur \o s>>
    ELSE LET first == CHOOSE i \in 1..Len(s) :
                          s[i] = "/" /\ \A j \in 1..(i - 1) : s[j] # "/"
         IN  <<cur \o SubSeq(s, 1, first - 1)>>
                 \o SplitFrom(SubSeq(s, first + 1, Len(s)), <<>>)

Split(s) ==
    SplitFrom(s, <<>>)

\* heapless::String<TS>::push_str: the string grows only when it fits.
PushStr(topic, s, TS) ==
    IF Len(topic) + Len(s) <= TS
    THEN [ok |-> TRUE, topic |-> topic \o s]
    ELSE [ok |-> FALSE, topic |-> topic]

Zeros(n) ==
    [i \in 1..n |-> 0]

(***************************************************************************)
(* Settings trees.  A node is a leaf (an unsigned integer, encoded as its  *)
(* decimal text), an atomic subtree (handled as one value), an array of    *)
(* children or a record of named children.                                 *)
(***************************************************************************)
Leaf(v) ==
    [kind |-> "leaf", val |-> v, names |-> <<>>, kids |-> <<>>]

Atomic(v) ==
    [kind |-> "atomic", val |-> v, names |-> <<>>, kids |-> <<>>]

\* An atomic subtree whose interior is an array of scalars.
AtomicOf(elems) ==
    [kind |-> "atomic", val |-> 0, names |-> <<>>, kids |-> elems]

Array(elems) ==
    [kind |-> "array", val |-> 0, names |-> <<>>, kids |-> elems]

Record(names, children) ==
    [kind |-> "record", val |-> 0, names |-> names, kids |-> children]

ArrayOf(n, c) ==
    Array([i \in 1..n |-> c])

SetOk(node) ==
    [ok |-> TRUE, err |-> "", node |-> node]

SetErr(e, node) ==
    [ok |-> FALSE, err |-> e, node |-> node]

GetOk(data) ==
    [ok |-> TRUE, err |-> "", data |-> data]

GetErr(e) ==
    [ok |-> FALSE, err |-> e, data |-> <<>>]

RECURSIVE StringSet(_, _, _)
RECURSIVE StringGet(_, _)
RECURSIVE GetMetadata(_)
RECURSIVE RecursePaths(_, _, _, _)

(***************************************************************************)
(* Leaves and atomic subtrees.                                             *)
(***************************************************************************)
LeafStringSet(self, topic_parts, value) ==
    IF topic_parts # <<>> THEN SetErr("PathTooLong", self)
    ELSE LET d == FromStrUsize(value)
         IN  IF d.ok THEN SetOk([self EXCEPT !.val = d.val])
             ELSE SetErr("DecodeError", self)

LeafStringGet(self, topic_parts) ==
    IF topic_parts # <<>> THEN GetErr("PathTooLong")
    ELSE GetOk(FmtUsize(self.val))

LeafGetMetadata(self) ==
    [max_topic_size |-> 0, max_depth |-> 1]

RECURSIVE SplitCommaFrom(_, _)
SplitCommaFrom(s, cur) ==
    IF s = <<>> THEN <<cur>>
    ELSE IF Head(s) = "," THEN <<cur>> \o SplitCommaFrom(Tail(s), <<>>)
    ELSE SplitCommaFrom(Tail(s), Append(cur, Head(s)))

RECURSIVE SkipTrailingWhitespace(_)
SkipTrailingWhitespace(s) ==
    IF s # <<>> /\ s[Len(s)] \in Whitespace
    THEN SkipTrailingWhitespace(SubSeq(s, 1, Len(s) - 1))
    ELSE s

\* The JSON text of an array of n unsigned numbers, decoded: "[", the
\* numbers separated by ",", "]"; any other text, or another count of
\* numbers, is an error.
FromStrArray(s, n) ==
    LET t == SkipTrailingWhitespace(SkipWhitespace(s))
        elems == IF Len(t) >= 2
                 THEN SplitCommaFrom(SubSeq(t, 2, Len(t) - 1), <<>>)
                 ELSE <<>>
    IN  IF /\ Len(t) >= 2
           /\ t[1] = "[" /\ t[Len(t)] = "]"
           /\ Len(elems) = n
           /\ \A i \in 1..n : FromStrUsize(elems[i]).ok
        THEN [ok |-> TRUE, vals |-> [i \in 1..n |-> FromStrUsize(elems[i]).val]]
        ELSE [ok |-> FALSE, vals |-> <<>>]

RECURSIVE FmtArrayFrom(_, _)
FmtArrayFrom(elems, i) ==
    IF i > Len(elems) THEN <<>>
    ELSE (IF i > 1 THEN <<",">> ELSE <<>>) \o FmtUsize(elems[i].val)
         \o FmtArrayFrom(elems, i + 1)

\* An atomic subtree is set and read as one value: the path ends at it and
\* the payload carries the whole interior.
AtomicStringSet(self, topic_parts, value) ==
    IF topic_parts # <<>> THEN SetErr("PathTooLong", self)
    ELSE IF self.kids = <<>> THEN LeafStringSet(self, topic_parts, value)
    ELSE LET d == FromStrArray(value, Len(self.kids))
         IN  IF d.ok
             THEN SetOk([self EXCEPT
                            !.kids = [i \in 1..Len(self.kids) |->
                                         Leaf(d.vals[i])]])
             ELSE SetErr("DecodeError", self)

AtomicStringGet(self, topic_parts) ==
    IF topic_parts # <<>> THEN GetErr("PathTooLong")
    ELSE IF self.kids = <<>> THEN LeafStringGet(self, topic_parts)
    ELSE GetOk(<<"[">> \o FmtArrayFrom(self.kids, 1) \o <<"]">>)

\* A leaf is one path: it is yielded when its cursor entry is 0, and the
\* entry counts the visits.
LeafRecursePaths(self, index, topic, TS) ==
    IF Len(index) = 0
    THEN [some |-> FALSE, index |-> index, topic |-> topic,
          panic |-> "Index stack too small"]
    ELSE [some |-> index[1] = 0,
          index |-> <<index[1] + 1>> \o Zeros(Len(index) - 1),
          topic |-> topic, panic |-> ""]

(***************************************************************************)
(* Arrays: impl Miniconf for [T; N].                                       *)
(***************************************************************************)
ArrayStringSet(self, topic_parts, value) ==
    IF topic_parts = <<>> THEN SetErr("PathTooShort", self)
    ELSE LET i == FromStrUsize(Head(topic_parts))
         IN  IF ~i.ok THEN SetErr("BadIndex", self)
             ELSE IF i.val >= Len(self.kids) THEN SetErr("BadIndex", self)
             ELSE LET r == StringSet(self.kids[i.val + 1],
                                     Tail(topic_parts), value)
                  IN  [ok |-> r.ok, err |-> r.err,
                       node |-> [self EXCEPT !.kids[i.val + 1] = r.node]]

ArrayStringGet(self, topic_parts) ==
    IF topic_parts = <<>> THEN GetErr("PathTooShort")
    ELSE LET i == FromStrUsize(Head(topic_parts))
         IN  IF ~i.ok THEN GetErr("BadIndex")
             ELSE IF i.val >= Len(self.kids) THEN GetErr("BadIndex")
             ELSE StringGet(self.kids[i.val + 1], Tail(topic_parts))

RECURSIVE NumDigitsLoop(_, _)
\* while index > 0 { index /= 10; num_digits += 1; }
NumDigitsLoop(index, num_digits) ==
    IF index > 0 THEN NumDigitsLoop(index \div 10, num_digits + 1)
    ELSE num_digits

ArrayGetMetadata(self) ==
    LET num_digits == NumDigitsLoop(Len(self.kids) - 1, 0)
        metadata == GetMetadata(self.kids[1])
    IN  IF metadata.max_topic_size > 0
        THEN [max_topic_size |-> metadata.max_topic_size + num_digits + 1,
              max_depth |-> metadata.max_depth + 1]
        ELSE [max_topic_size |-> num_digits,
              max_depth |-> metadata.max_depth + 1]

RECURSIVE ArrayPathsLoop_KeepsInnerCursor(_, _, _, _, _)
\* The while loop without index[1..].iter_mut().for_each(|x| *x = 0): the
\* next element is entered with the cursor the previous one left.
ArrayPathsLoop_KeepsInnerCursor(self, index, topic, TS, original_length) ==
    IF index[1] < Len(self.kids)
    THEN LET sep == IF Len(topic) > 0 THEN PushStr(topic, <<"/">>, TS)
                    ELSE [ok |-> TRUE, topic |-> topic]
             num == PushStr(sep.topic, FmtUsize(index[1]), TS)
         IN  IF ~sep.ok \/ ~num.ok
             THEN [some |-> FALSE, index |-> index, topic |-> num.topic,
                   panic |-> "Topic buffer too short"]
             ELSE LET r == RecursePaths(self.kids[index[1] + 1], Tail(index),
                                        num.topic, TS)
                  IN  IF r.panic # ""
                      THEN [some |-> FALSE, index |-> <<index[1]>> \o r.index,
                            topic |-> r.topic, panic |-> r.panic]
                      ELSE IF r.some
                      THEN [some |-> TRUE, index |-> <<index[1]>> \o r.index,
                            topic |-> r.topic, panic |-> ""]
                      ELSE ArrayPathsLoop_KeepsInnerCursor(self,
                               <<index[1] + 1>> \o r.index,
                               SubSeq(r.topic, 1, original_length),
                               TS, original_length)
    ELSE [some |-> FALSE, index |-> index, topic |-> topic, panic |-> ""]

RECURSIVE ArrayPathsLoop_NoTruncate(_, _, _, _, _)
\* The while loop without topic.truncate(original_length): the index of
\* the element just completed stays in the buffer.
ArrayPathsLoop_NoTruncate(self, index, topic, TS, original_length) ==
    IF index[1] < Len(self.kids)
    THEN LET sep == IF Len(topic) > 0 THEN PushStr(topic, <<"/">>, TS)
                    ELSE [ok |-> TRUE, topic |-> topic]
             num == PushStr(sep.topic, FmtUsize(index[1]), TS)
         IN  IF ~sep.ok \/ ~num.ok
             THEN [some |-> FALSE, index |-> index, topic |-> num.topic,
                   panic |-> "Topic buffer too short"]
             ELSE LET r == RecursePaths(self.kids[index[1] + 1], Tail(index),
                                        num.topic, TS)
                  IN  IF r.panic # ""
                      THEN [some |-> FALSE, index |-> <<index[1]>> \o r.index,
                            topic |-> r.topic, panic |-> r.panic]
                      ELSE IF r.some
                      THEN [some |-> TRUE, index |-> <<index[1]>> \o r.index,
                            topic |-> r.topic, panic |-> ""]
                      ELSE ArrayPathsLoop_NoTruncate(self,
                               <<index[1] + 1>> \o Zeros(Len(index) - 1),
                               r.topic, TS, original_length)
    ELSE [some |-> FALSE, index |-> index, topic |-> topic, panic |-> ""]

RECURSIVE ArrayPathsLoop(_, _, _, _, _)
\* The while loop of recurse_paths: index[1] is the array's own cursor
\* entry (index[0] in the source), the rest belongs to the element.
ArrayPathsLoop(self, index, topic, TS, original_length) ==
    IF index[1] < Len(self.kids)
    THEN LET sep == IF Len(topic) > 0 THEN PushStr(topic, <<"/">>, TS)
                    ELSE [ok |-> TRUE, topic |-> topic]
             num == PushStr(sep.topic, FmtUsize(index[1]), TS)
         IN  IF ~sep.ok \/ ~num.ok
             THEN [some |-> FALSE, index |-> index, topic |-> num.topic,
                   panic |-> "Topic buffer too short"]
             ELSE LET r == RecursePaths(self.kids[index[1] + 1], Tail(index),
                                        num.topic, TS)
                  IN  IF r.panic # ""
                      THEN [some |-> FALSE, index |-> <<index[1]>> \o r.index,
                            topic |-> r.topic, panic |-> r.panic]
                      ELSE IF r.some
                      THEN [some |-> TRUE, index |-> <<index[1]>> \o r.index,
                            topic |-> r.topic, panic |-> ""]
                      ELSE ArrayPathsLoop(self,
                               <<index[1] + 1>> \o Zeros(Len(index) - 1),
                               SubSeq(r.topic, 1, original_length),
                               TS, original_length)
    ELSE [some |-> FALSE, index |-> index, topic |-> topic, panic |-> ""]

ArrayRecursePaths(self, index, topic, TS) ==
    IF Len(index) = 0
    THEN [some |-> FALSE, index |-> index, topic |-> topic,
          panic |-> "Index stack too small"]
    ELSE ArrayPathsLoop(self, index, topic, TS, Len(topic))

(***************************************************************************)
(* Records: the traversal generated for a struct with named fields.        *)
(***************************************************************************)
FieldIndex(self, name) ==
    IF \E i \in 1..Len(self.names) : self.names[i] = name
    THEN CHOOSE i \in 1..Len(self.names) : self.names[i] = name
    ELSE 0

RecordStringSet(self, topic_parts, value) ==
    IF topic_parts = <<>> THEN SetErr("PathTooShort", self)
    ELSE LET f == FieldIndex(self, Head(topic_parts))
         IN  IF f = 0 THEN SetErr("MissingField", self)
             ELSE LET r == StringSet(self.kids[f], Tail(topic_parts), value)
                  IN  [ok |-> r.ok, err |-> r.err,
                       node |-> [self EXCEPT !.kids[f] = r.node]]

RecordStringGet(self, topic_parts) ==
    IF topic_parts = <<>> THEN GetErr("PathTooShort")
    ELSE LET f == FieldIndex(self, Head(topic_parts))
         IN  IF f = 0 THEN GetErr("MissingField")
             ELSE StringGet(self.kids[f], Tail(topic_parts))

Max(a, b) ==
    IF a >= b THEN a ELSE b

RECURSIVE RecordMetaFrom(_, _)
\* The maximum with a separator counted after every field name.
RecordMetaFrom_AlwaysSeparator(self, f) ==
    IF f > Len(self.kids) THEN [max_topic_size |-> 0, max_depth |-> 0]
    ELSE LET c == GetMetadata(self.kids[f])
             size == Len(self.names[f]) + 1 + c.max_topic_size
             rest == RecordMetaFrom(self, f + 1)
         IN  [max_topic_size |-> Max(size, rest.max_topic_size),
              max_depth |-> Max(c.max_depth, rest.max_depth)]

\* The maximum over the fields, from field f on: of the child's depth, and
\* of the field name's length plus the child's topic size (with a separator
\* when the child has a topic of its own).
RecordMetaFrom(self, f) ==
    IF f > Len(self.kids) THEN [max_topic_size |-> 0, max_depth |-> 0]
    ELSE LET c == GetMetadata(self.kids[f])
             size == IF c.max_topic_size > 0
                     THEN Len(self.names[f]) + 1 + c.max_topic_size
                     ELSE Len(self.names[f])
             rest == RecordMetaFrom(self, f + 1)
         IN  [max_topic_size |-> Max(size, rest.max_topic_size),
              max_depth |-> Max(c.max_depth, rest.max_depth)]

RecordGetMetadata(self) ==
    LET m == RecordMetaFrom(self, 1)
    IN  [max_topic_size |-> m.max_topic_size, max_depth |-> m.max_depth + 1]

RECURSIVE RecordPathsLoop(_, _, _, _, _)
RecordPathsLoop(self, index, topic, TS, original_length) ==
    IF index[1] < Len(self.kids)
    THEN LET sep == IF Len(topic) > 0 THEN PushStr(topic, <<"/">>, TS)
                    ELSE [ok |-> TRUE, topic |-> topic]
             nam == PushStr(sep.topic, self.names[index[1] + 1], TS)
         IN  IF ~sep.ok \/ ~nam.ok
             THEN [some |-> FALSE, index |-> index, topic |-> nam.topic,
                   panic |-> "Topic buffer too short"]
             ELSE LET r == RecursePaths(self.kids[index[1] + 1], Tail(index),
                                        nam.topic, TS)
                  IN  IF r.panic # ""
                      THEN [some |-> FALSE, index |-> <<index[1]>> \o r.index,
                            topic |-> r.topic, panic |-> r.panic]
                      ELSE IF r.some
                      THEN [some |-> TRUE, index |-> <<index[1]>> \o r.index,
                            topic |-> r.topic, panic |-> ""]
                      ELSE RecordPathsLoop(self,
                               <<index[1] + 1>> \o Zeros(Len(index) - 1),
                               SubSeq(r.topic, 1, original_length),
                               TS, original_length)
    ELSE [some |-> FALSE, index |-> index, topic |-> topic, panic |-> ""]

RecordRecursePaths(self, index, topic, TS) ==
    IF Len(index) = 0
    THEN [some |-> FALSE, index |-> index, topic |-> topic,
          panic |-> "Index stack too small"]
    ELSE RecordPathsLoop(self, index, topic, TS, Len(topic))

(***************************************************************************)
(* The Miniconf trait, dispatched on the node's kind.                      *)
(***************************************************************************)
StringSet(self, topic_parts, value) ==
    CASE self.kind = "array" -> ArrayStringSet(self, topic_parts, value)
      [] self.kind = "record" -> RecordStringSet(self, topic_parts, value)
      [] self.kind = "atomic" -> AtomicStringSet(self, topic_parts, value)
      [] OTHER -> LeafStringSet(self, topic_parts, value)

StringGet(self, topic_parts) ==
    CASE self.kind = "array" -> ArrayStringGet(self, topic_parts)
      [] self.kind = "record" -> RecordStringGet(self, topic_parts)
      [] self.kind = "atomic" -> AtomicStringGet(self, topic_parts)
      [] OTHER -> LeafStringGet(self, topic_parts)

GetMetadata(self) ==
    CASE self.kind = "array" -> ArrayGetMetadata(self)
      [] self.kind = "record" -> RecordGetMetadata(self)
      [] OTHER -> LeafGetMetadata(self)

RecursePaths(self, index, topic, TS) ==
    CASE self.kind = "array" -> ArrayRecursePaths(self, index, topic, TS)
      [] self.kind = "record" -> RecordRecursePaths(self, index, topic, TS)
      [] OTHER -> LeafRecursePaths(self, index, topic, TS)

\* Miniconf::set / get: the path is split on '/'.
Set(self, path, value) ==
    StringSet(self, Split(path), value)

Get(self, path) ==
    StringGet(self, Split(path))

\* Miniconf::into_iter: refused when the topic buffer or the cursor is
\* smaller than the metadata asks for.
IntoIter(self, state, TS) ==
    LET metadata == GetMetadata(self)
    IN  IF TS < metadata.max_topic_size THEN "InsufficientTopicLength"
        ELSE IF Len(state) < metadata.max_depth THEN "InsufficientStateDepth"
        ELSE "Ok"

\* MiniconfIter::next: one call of recurse_paths on an empty topic buffer.
IterNext(self, state, TS) ==
    RecursePaths(self, state, <<>>, TS)

(***************************************************************************)
(* Reference view of a tree: its leaf paths in depth-first preorder,       *)
(* children left to right, computed by structural recursion.               *)
(***************************************************************************)
RECURSIVE LeafPaths(_)
RECURSIVE KidPathsFrom(_, _)

Join(prefix, p) ==
    IF p = <<>> THEN prefix ELSE prefix \o <<"/">> \o p

KidPathsFrom(node, k) ==
    IF k > Len(node.kids) THEN <<>>
    ELSE LET name == IF node.kind = "array" THEN FmtUsize(k - 1)
                     ELSE node.names[k]
             sub == LeafPaths(node.kids[k])
         IN  [j \in 1..Len(sub) |-> Join(name, sub[j])]
             \o KidPathsFrom(node, k + 1)

LeafPaths(node) ==
    IF node.kind \in {"array", "record"} THEN KidPathsFrom(node, 1)
    ELSE <<<<>>>>

(***************************************************************************)
(* State.                                                                  *)
(***************************************************************************)
\* The tree engine on its own: a tree, the cursor and topic capacity its
\* path iterator was built with, the paths yielded since the cursor was
\* zeroed, and the outcome of the latest operation.
VARIABLES t_tree, t_index, t_cap, t_seen, t_out, t_sets

\* One array addressed by set and get, and the latest operation on it.
VARIABLES a_self, a_out

\* A cursor and a topic buffer handed to the array's recurse_paths: the
\* cursor between the calls, and the buffer as the caller fills it before
\* each call.
VARIABLES a_index, a_topic

treeVars == <<t_tree, t_index, t_cap, t_seen, t_out, t_sets>>

arrayVars == <<a_self, a_out, a_index, a_topic>>

(***************************************************************************)
(* The path iterator and the metadata over a family of trees.              *)
(***************************************************************************)
Txt_v == <<"v">>

Txt_a == <<"a">>

Txt_b == <<"b">>

Txt_data == <<"d", "a", "t", "a">>

LeafKinds ==
    {Leaf(0), Atomic(0)}

\* An atomic struct that contains an array.
AtomicArrays ==
    {AtomicOf([i \in 1..2 |-> Leaf(0)])}

SmallArrays ==
    {ArrayOf(n, Leaf(0)) : n \in 1..2}

Shapes ==
    LeafKinds
    \cup {ArrayOf(n, c) : n \in 1..MaxLen, c \in LeafKinds}
    \cup {ArrayOf(n, ArrayOf(m, Leaf(0))) : n \in 1..2, m \in {1, 2, MaxLen}}
    \cup {Record(<<nm>>, <<c>>) :
             nm \in {Txt_v, Txt_data},
             c \in LeafKinds \cup AtomicArrays \cup SmallArrays}
    \cup {Record(<<Txt_a, Txt_b>>, <<c, Leaf(0)>>) : c \in SmallArrays}
    \cup {ArrayOf(n, Record(<<Txt_v>>, <<Leaf(0)>>)) : n \in 1..2}
    \cup {Record(<<Txt_data>>, <<Record(<<Txt_v>>, <<c>>)>>) :
             c \in SmallArrays}

NoTreeOut ==
    [op |-> "none", some |-> FALSE, topic |-> <<>>, panic |-> "",
     meta |-> [max_topic_size |-> 0, max_depth |-> 0],
     path |-> <<>>, value |-> <<>>, before |-> Leaf(0), ok |-> FALSE,
     err |-> ""]

TreeInit ==
    /\ t_tree \in Shapes
    /\ \E depth \in {GetMetadata(t_tree).max_depth, MAX_RECURSION_DEPTH} :
           t_index = Zeros(depth)
    /\ t_cap \in {GetMetadata(t_tree).max_topic_size, MAX_TOPIC_LENGTH}
    /\ t_seen = <<>>
    /\ t_out = NoTreeOut
    /\ t_sets = 0

\* for topic in tree.into_iter(&mut index): one advancement of the iterator.
TreeNext ==
    /\ t_out.panic = ""
    /\ t_tree.kind \in {"leaf", "atomic"} => t_index[1] < MaxVisits
    /\ IntoIter(t_tree, t_index, t_cap) = "Ok"
    /\ \E r \in {IterNext(t_tree, t_index, t_cap)} :
           /\ t_index' = r.index
           /\ t_seen' = IF r.some THEN Append(t_seen, r.topic) ELSE t_seen
           /\ t_out' = [NoTreeOut EXCEPT !.op = "next", !.some = r.some,
                                         !.topic = r.topic, !.panic = r.panic]
    /\ UNCHANGED <<t_tree, t_cap, t_sets>>

\* The cursor is zeroed for a new pass.
TreeRestart ==
    /\ t_out.panic = ""
    /\ t_seen # <<>>
    /\ t_index' = Zeros(Len(t_index))
    /\ t_seen' = <<>>
    /\ t_out' = NoTreeOut
    /\ UNCHANGED <<t_tree, t_cap, t_sets>>

TreeGetMetadata ==
    /\ t_out.panic = ""
    /\ t_out' = [NoTreeOut EXCEPT !.op = "metadata",
                                  !.meta = GetMetadata(t_tree)]
    /\ UNCHANGED <<t_tree, t_index, t_cap, t_seen, t_sets>>

\* The paths and payloads of the sets: the first and the last leaf of the
\* tree, and one segment beyond the first.
TreePaths(tree) ==
    LET all == LeafPaths(tree)
    IN  {all[1], all[Len(all)], all[1] \o <<"/", "0">>}

TreePayloads ==
    {<<"1">>, <<"x">>, <<"[", "1", ",", "2", "]">>, <<"[", "1", "]">>,
     <<" ", "[", "2", ",", " ", "1", "]">>}

\* settings.string_set(path.split('/').peekable(), value)
TreeSet ==
    /\ t_out.panic = ""
    /\ t_sets < MaxSets
    /\ \E path \in TreePaths(t_tree), value \in TreePayloads :
           \E r \in {Set(t_tree, path, value)} :
               /\ t_tree' = r.node
               /\ t_out' = [NoTreeOut EXCEPT !.op = "set", !.path = path,
                                             !.value = value,
                                             !.before = t_tree,
                                             !.ok = r.ok, !.err = r.err]
    /\ t_sets' = t_sets + 1
    /\ UNCHANGED <<t_index, t_cap, t_seen>>

(***************************************************************************)
(* set and get on an array of leaves.                                      *)
(***************************************************************************)
Segments ==
    {<<"0">>, <<"1">>, <<"2">>, <<"3">>, <<"1", "0">>, <<"0", "1">>,
     <<"0", "0">>, <<" ", "0">>, <<"1", " ">>, <<"\t", "1">>, <<"-", "1">>,
     <<"-", "0">>, <<"+", "1">>, <<"x">>, <<"1", "x">>, <<"1", ".", "0">>,
     <<>>, <<" ">>}

PartsInputs ==
    {<<>>} \cup {<<s>> : s \in Segments} \cup {<<s, <<"0">>>> : s \in Segments}

Payloads ==
    {<<"0">>, <<"1">>, <<"x">>}

NoArrayOut ==
    [op |-> "none", parts |-> <<>>, value |-> <<>>, before |-> Leaf(0),
     ok |-> FALSE, err |-> "", data |-> <<>>,
     some |-> FALSE, topic |-> <<>>, panic |-> "", index |-> <<>>,
     again |-> FALSE]

ArrayInit ==
    /\ a_self \in {ArrayOf(n, Leaf(0)) : n \in 1..MaxN}
    /\ a_out = NoArrayOut
    /\ a_index = <<>>
    /\ a_topic = <<>>

ArraySet ==
    \E parts \in PartsInputs, value \in Payloads :
        \E r \in {ArrayStringSet(a_self, parts, value)} :
            /\ a_self' = r.node
            /\ a_out' = [NoArrayOut EXCEPT
                             !.op = "set", !.parts = parts, !.value = value,
                             !.before = a_self, !.ok = r.ok, !.err = r.err]
            /\ UNCHANGED <<a_index, a_topic>>

ArrayGet ==
    \E parts \in PartsInputs :
        \E r \in {ArrayStringGet(a_self, parts)} :
            /\ a_out' = [NoArrayOut EXCEPT
                             !.op = "get", !.parts = parts,
                             !.before = a_self, !.ok = r.ok, !.err = r.err,
                             !.data = r.data]
            /\ UNCHANGED <<a_self, a_index, a_topic>>

\* The arrays enumerated by direct calls of recurse_paths, and what the
\* caller has in the topic buffer at each call: nothing (the iterator), or
\* the name or index an enclosing node wrote.
PathArrays ==
    {ArrayOf(n, Leaf(0)) : n \in 1..MaxN}
    \cup {ArrayOf(n, ArrayOf(m, Leaf(0))) : n \in 1..MaxN, m \in 1..MaxN}

EntryTopics ==
    {<<>>, Txt_a, <<"1">>}

PathsInit ==
    /\ a_self \in PathArrays
    /\ a_index \in {Zeros(GetMetadata(a_self).max_depth),
                    Zeros(GetMetadata(a_self).max_depth + 1)}
    /\ a_topic \in EntryTopics
    /\ a_out = NoArrayOut

\* self.recurse_paths(&mut index, &mut topic), the buffer holding a_topic.
ArrayRecurse ==
    /\ a_out.panic = ""
    /\ \E r \in {ArrayRecursePaths(a_self, a_index, a_topic,
                                    MAX_TOPIC_LENGTH)} :
           /\ a_index' = r.index
           /\ a_out' = [NoArrayOut EXCEPT
                            !.op = "paths", !.before = a_self,
                            !.some = r.some, !.topic = r.topic,
                            !.panic = r.panic, !.index = a_index,
                            !.again = (a_out.op = "paths" /\ ~a_out.some)]
    /\ UNCHANGED <<a_self, a_topic>>

(***************************************************************************)
(* The settings session.                                                   *)
(***************************************************************************)
\* MqttClient: the smlang state and its context (timeout, republish_state),
\* the live settings; the clock; what the transport reports (is_connected).
VARIABLES state, timeout, republish_state, settings, now, connected

\* Where the current call of update / handled_update stands ("idle": no
\* call in progress, "poll": inside mqtt.poll), which of the two was
\* called, the local `updated`, the messages the poll has delivered, and
\* the message of a panic once an unwrap or assert has failed.
VARIABLES pc, api, updated, nmsgs, panicked

\* What the current call has done so far: the dispatch (tick), the latest
\* inbound message (msg), the number of messages whose set succeeded
\* (tickSets) and, of these, of messages the handler rejected (tickRejects),
\* the live settings when the call began (settings0).
VARIABLES tick, msg, tickSets, tickRejects, settings0

\* The result of the latest finished call (ret) and whether the live
\* settings it left differ from those it found (changed).
VARIABLES ret, changed

\* Since the latest Reset: whether "1" was published to <prefix>/alive,
\* whether the subscription succeeded.  Since the latest start_republish:
\* the paths republished, in order.
VARIABLES aliveDone, subDone, passLog

\* Since the latest Reset: whether a subscription failed in a finished
\* call (subFailed), the clock value at the Subscribed transition
\* (subscribedAt, NoTimeout when there was none).  What the latest Reset
\* interrupted (dropped): a republish pass part-way ("midpass"), a finished
\* one ("complete"), or neither.  The machine as force_republish found it,
\* when force_republish was the latest call (forced).
VARIABLES subFailed, subscribedAt, dropped, forced

\* The number of calls of handled_update since the last one that found the
\* session in Initial (that one included), up to MaxTicks.  It is counted
\* in the specification SpecTicks and stays 0 in the others.
VARIABLES ticks

sessionVars ==
    <<state, timeout, republish_state, settings, now, connected, pc, api,
      updated, nmsgs, panicked, tick, msg, tickSets, tickRejects, settings0,
      ret, changed,
      aliveDone, subDone, passLog, subFailed, subscribedAt, dropped, forced,
      ticks>>

vars == <<treeVars, arrayVars, sessionVars>>

States ==
    {"Initial", "ConnectedToBroker", "PendingSubscribe", "PendingRepublish",
     "RepublishingSettings", "Active"}

\* The prefix given to MqttClient::new.
Prefix == <<"d">>

SettingsPrefix ==
    Prefix \o <<"/", "s", "e", "t", "t", "i", "n", "g", "s">>

AliveTopic ==
    Prefix \o <<"/", "a", "l", "i", "v", "e">>

LogTopic ==
    Prefix \o <<"/", "l", "o", "g">>

SubscribeTopic ==
    SettingsPrefix \o <<"/", "#">>

\* The settings the client is constructed with: struct { a: [u32; 2], b: u32 }.
InitialSettings ==
    Record(<<Txt_a, Txt_b>>, <<ArrayOf(2, Leaf(0)), Leaf(0)>>)

NoTimeout == -1

\* The transition table with Connected leading straight to PendingSubscribe,
\* so that no liveness publish comes before the subscription.
SmTransition_SkipAlive(s, e) ==
    CASE s = "Initial" /\ e = "Connected" -> "PendingSubscribe"
      [] s = "ConnectedToBroker" /\ e = "IndicatedLife" -> "PendingSubscribe"
      [] s = "PendingSubscribe" /\ e = "Subscribed" -> "PendingRepublish"
      [] s \in {"PendingRepublish", "RepublishingSettings", "Active"}
             /\ e = "StartRepublish" -> "RepublishingSettings"
      [] s = "RepublishingSettings" /\ e = "RepublishComplete" -> "Active"
      [] e = "Reset" -> "Initial"
      [] OTHER -> "Invalid"

\* The transition table without the row that restarts a pass under way.
SmTransition_NoRestartMidPass(s, e) ==
    CASE s = "Initial" /\ e = "Connected" -> "ConnectedToBroker"
      [] s = "ConnectedToBroker" /\ e = "IndicatedLife" -> "PendingSubscribe"
      [] s = "PendingSubscribe" /\ e = "Subscribed" -> "PendingRepublish"
      [] s \in {"PendingRepublish", "Active"} /\ e = "StartRepublish"
             -> "RepublishingSettings"
      [] s = "RepublishingSettings" /\ e = "RepublishComplete" -> "Active"
      [] e = "Reset" -> "Initial"
      [] OTHER -> "Invalid"

\* The transitions of statemachine!; "Invalid" is process_event's Err.
SmTransition(s, e) ==
    CASE s = "Initial" /\ e = "Connected" -> "ConnectedToBroker"
      [] s = "ConnectedToBroker" /\ e = "IndicatedLife" -> "PendingSubscribe"
      [] s = "PendingSubscribe" /\ e = "Subscribed" -> "PendingRepublish"
      [] s = "PendingRepublish" /\ e = "StartRepublish"
             -> "RepublishingSettings"
      [] s = "RepublishingSettings" /\ e = "StartRepublish"
             -> "RepublishingSettings"
      [] s = "Active" /\ e = "StartRepublish" -> "RepublishingSettings"
      [] s = "RepublishingSettings" /\ e = "RepublishComplete" -> "Active"
      [] s = "Initial" /\ e = "Reset" -> "Initial"
      [] s = "ConnectedToBroker" /\ e = "Reset" -> "Initial"
      [] s = "PendingSubscribe" /\ e = "Reset" -> "Initial"
      [] s = "PendingRepublish" /\ e = "Reset" -> "Initial"
      [] s = "RepublishingSettings" /\ e = "Reset" -> "Initial"
      [] s = "Active" /\ e = "Reset" -> "Initial"
      [] OTHER -> "Invalid"

\* Context::start_republish_timeout.
StartRepublishTimeout(sm, clock) ==
    [sm EXCEPT !.timeout = clock + REPUBLISH_TIMEOUT_SECONDS]

\* The cursor left where the previous pass stopped.
StartRepublish_KeepsCursor(sm) ==
    sm

\* Context::start_republish.
StartRepublish(sm) ==
    [sm EXCEPT !.republish_state = Zeros(MAX_RECURSION_DEPTH)]

\* The timeout taken as reached at the deadline itself.
RepublishHasTimedOut_AtDeadline(sm, clock) ==
    IF sm.timeout # NoTimeout THEN clock >= sm.timeout ELSE FALSE

\* Context::republish_has_timed_out.
RepublishHasTimedOut(sm, clock) ==
    IF sm.timeout # NoTimeout THEN clock > sm.timeout ELSE FALSE

\* StateMachine::process_event: the transition and its action; the machine
\* is left as it was when the event is not accepted.
ProcessEvent(sm, e, clock) ==
    LET next == SmTransition(sm.state, e)
    IN  IF next = "Invalid" THEN [ok |-> FALSE, sm |-> sm]
        ELSE LET acted ==
                     IF e = "Subscribed" THEN StartRepublishTimeout(sm, clock)
                     ELSE IF e = "StartRepublish" THEN StartRepublish(sm)
                     ELSE sm
             IN  [ok |-> TRUE, sm |-> [acted EXCEPT !.state = next]]

\* process_event(e).unwrap() inside a step that has come to `d`.
Unwrap(d, e, clock) ==
    LET r == ProcessEvent(d.sm, e, clock)
    IN  IF r.ok THEN [d EXCEPT !.sm = r.sm]
        ELSE [d EXCEPT !.panic = "process_event"]

\* One request made of the transport: a publish ("alive", "leaf") or a
\* subscription, with the topic, the payload and whether it succeeded.
Op(kind, topic, payload, ok) ==
    [kind |-> kind, topic |-> topic, payload |-> payload, ok |-> ok]

RECURSIVE DrainLoop_AdvanceThenCheck(_, _, _)
\* The loop with can_publish tested at its top, after the iterator has
\* advanced: the ordering the source warns would silently drop a setting.
DrainLoop_AdvanceThenCheck(d, tree, budget) ==
    LET r == IterNext(tree, d.sm.republish_state, MAX_TOPIC_LENGTH)
        at == [d EXCEPT !.sm.republish_state = r.index]
        got == Get(tree, r.topic)
        sent == [at EXCEPT
                    !.ops = Append(@, Op("leaf",
                                SettingsPrefix \o <<"/">> \o r.topic,
                                got.data, TRUE)),
                    !.paths = Append(@, r.topic)]
    IN  IF ~r.some THEN [at EXCEPT !.done = TRUE]
        ELSE IF budget = 0 THEN at
        ELSE DrainLoop_AdvanceThenCheck(sent, tree, budget - 1)

RECURSIVE DrainLoop(_, _, _)
\* The for loop of handle_republish.  `budget` is the number of publishes
\* after which can_publish turns false in this tick; d.done tells that the
\* iterator was exhausted.
DrainLoop(d, tree, budget) ==
    LET r == IterNext(tree, d.sm.republish_state, MAX_TOPIC_LENGTH)
        at == [d EXCEPT !.sm.republish_state = r.index]
    IN  IF r.panic # "" THEN [at EXCEPT !.panic = r.panic]
        ELSE IF ~r.some THEN [at EXCEPT !.done = TRUE]
        ELSE LET got == Get(tree, r.topic)
                 prefixed_topic ==
                     PushStr(<<>>, SettingsPrefix \o <<"/">> \o r.topic,
                             MAX_TOPIC_LENGTH)
             IN  IF ~got.ok THEN [at EXCEPT !.panic = "get"]
                 ELSE IF ~prefixed_topic.ok
                 THEN [at EXCEPT !.panic = "prefixed_topic"]
                 ELSE LET sent ==
                              [at EXCEPT
                                  !.ops = Append(@, Op("leaf",
                                              prefixed_topic.topic,
                                              got.data, TRUE)),
                                  !.paths = Append(@, r.topic)]
                      IN  IF budget - 1 = 0 THEN sent
                          ELSE DrainLoop(sent, tree, budget - 1)

\* handle_republish without the RepublishComplete event at the end of the
\* pass.
HandleRepublish_NeverCompletes(d, tree, budget, clock) ==
    IF budget = 0 THEN d
    ELSE IF IntoIter(tree, d.sm.republish_state, MAX_TOPIC_LENGTH) # "Ok"
    THEN [d EXCEPT !.panic = "into_iter"]
    ELSE DrainLoop(d, tree, budget)

HandleRepublish(d, tree, budget, clock) ==
    IF budget = 0 THEN d
    ELSE IF IntoIter(tree, d.sm.republish_state, MAX_TOPIC_LENGTH) # "Ok"
    THEN [d EXCEPT !.panic = "into_iter"]
    ELSE LET r == DrainLoop(d, tree, budget)
         IN  IF r.panic # "" \/ ~r.done THEN r
             ELSE Unwrap(r, "RepublishComplete", clock)

HandleSubscription(d, sub_ok, clock) ==
    LET tried == [d EXCEPT !.ops = Append(@, Op("subscribe", SubscribeTopic,
                                                <<>>, sub_ok))]
    IN  IF sub_ok THEN Unwrap(tried, "Subscribed", clock) ELSE tried

HandleIndicatingAlive(d, alive_ok, clock) ==
    LET tried == [d EXCEPT !.ops = Append(@, Op("alive", AliveTopic,
                                                <<"1">>, alive_ok))]
    IN  IF alive_ok THEN Unwrap(tried, "IndicatedLife", clock) ELSE tried

\* The dispatch going on to republish in the call that starts the pass.
Dispatch_RepublishesAtStart(d, tree, is_connected, alive_ok, sub_ok, budget, clock) ==
    CASE d.sm.state = "Initial" ->
             IF is_connected THEN Unwrap(d, "Connected", clock) ELSE d
      [] d.sm.state = "ConnectedToBroker" ->
             HandleIndicatingAlive(d, alive_ok, clock)
      [] d.sm.state = "PendingSubscribe" ->
             HandleSubscription(d, sub_ok, clock)
      [] d.sm.state = "PendingRepublish" ->
             IF RepublishHasTimedOut(d.sm, clock)
             THEN HandleRepublish(Unwrap(d, "StartRepublish", clock), tree,
                                  budget, clock)
             ELSE d
      [] d.sm.state = "RepublishingSettings" ->
             HandleRepublish(d, tree, budget, clock)
      [] OTHER -> d

\* match self.state.state() { ... } of handled_update.
Dispatch(d, tree, is_connected, alive_ok, sub_ok, budget, clock) ==
    CASE d.sm.state = "Initial" ->
             IF is_connected THEN Unwrap(d, "Connected", clock) ELSE d
      [] d.sm.state = "ConnectedToBroker" ->
             HandleIndicatingAlive(d, alive_ok, clock)
      [] d.sm.state = "PendingSubscribe" ->
             HandleSubscription(d, sub_ok, clock)
      [] d.sm.state = "PendingRepublish" ->
             IF RepublishHasTimedOut(d.sm, clock)
             THEN Unwrap(d, "StartRepublish", clock) ELSE d
      [] d.sm.state = "RepublishingSettings" ->
             HandleRepublish(d, tree, budget, clock)
      [] OTHER -> d

\* handled_update without the Reset on a lost connection.
UpdateHead_NoReset(sm, tree, is_connected, alive_ok, sub_ok, budget, clock) ==
    Dispatch([sm |-> sm, ops |-> <<>>, paths |-> <<>>, done |-> FALSE,
              panic |-> ""],
             tree, is_connected, alive_ok, sub_ok, budget, clock)

\* handled_update up to its call of handle_mqtt_traffic.
UpdateHead(sm, tree, is_connected, alive_ok, sub_ok, budget, clock) ==
    LET d0 == [sm |-> sm, ops |-> <<>>, paths |-> <<>>, done |-> FALSE,
               panic |-> ""]
        d1 == IF ~is_connected THEN Unwrap(d0, "Reset", clock) ELSE d0
    IN  IF d1.panic # "" THEN d1
        ELSE Dispatch(d1, tree, is_connected, alive_ok, sub_ok, budget, clock)

(***************************************************************************)
(* Inbound traffic: the callback handle_mqtt_traffic gives to mqtt.poll.   *)
(***************************************************************************)
\* str::strip_prefix.
StripPrefix(topic, prefix) ==
    IF Len(topic) >= Len(prefix) /\ SubSeq(topic, 1, Len(prefix)) = prefix
    THEN [some |-> TRUE, rest |-> SubSeq(topic, Len(prefix) + 1, Len(topic))]
    ELSE [some |-> FALSE, rest |-> <<>>]

\* The handler of the example of handled_update: it either rejects with a
\* reason, leaving the live settings alone, or adopts the new settings.
RejectReason == "Requested threshold too high"

ValidatingHandler(verdict, old_settings, new_settings) ==
    IF verdict = "reject"
    THEN [settings |-> old_settings, ok |-> FALSE, reason |-> RejectReason]
    ELSE [settings |-> new_settings, ok |-> TRUE, reason |-> ""]

\* A handler for update() that answers Ok(()) without adopting the new
\* settings.
UpdateHandler_Keeps(verdict, old_settings, new_settings) ==
    [settings |-> old_settings, ok |-> TRUE, reason |-> ""]

\* The handler update() passes: *old = new.clone(); Ok(()).
UpdateHandler(verdict, old_settings, new_settings) ==
    [settings |-> new_settings, ok |-> TRUE, reason |-> ""]

Handler(which, verdict, old_settings, new_settings) ==
    IF which = "update"
    THEN UpdateHandler(verdict, old_settings, new_settings)
    ELSE ValidatingHandler(verdict, old_settings, new_settings)

NoResponse ==
    [sent |-> FALSE, topic |-> <<>>, code |-> "", msg |-> <<>>,
     qos |-> "", retain |-> FALSE]

\* SettingsResponse::from(Result<(), E>) and SettingsResponse::error, as the
\* message MqttMessage::new addresses to the request's response topic, or to
\* <prefix>/log when the request names none.
Response(reply, code, text) ==
    [sent |-> TRUE, topic |-> IF reply # <<>> THEN reply ELSE LogTopic,
     code |-> code, msg |-> text, qos |-> "AtMostOnce", retain |-> FALSE]

\* write!(&mut msg, "{:?}", err) of the Err(kind) string_set returned.
DebugErr(kind) ==
    <<"Err(", kind, ")">>

\* The callback with the handler called whatever string_set returned.
Callback_CallsHandlerOnError(which, live, topic, message, reply, verdict) ==
    LET stripped == StripPrefix(topic, SettingsPrefix)
        path == IF stripped.rest # <<>> THEN Tail(stripped.rest)
                ELSE stripped.rest
        set == Set(live, path, message)
        h == Handler(which, verdict, live, set.node)
    IN  IF ~stripped.some
        THEN [settings |-> live, updated |-> FALSE, path |-> <<>>,
              set_ok |-> FALSE, err |-> "", called |-> FALSE,
              accepted |-> FALSE, resp |-> NoResponse]
        ELSE [settings |-> h.settings, updated |-> TRUE, path |-> path,
              set_ok |-> set.ok, err |-> set.err, called |-> TRUE,
              accepted |-> h.ok,
              resp |-> IF h.ok THEN Response(reply, "ok", <<"OK">>)
                       ELSE Response(reply, "error", <<h.reason>>)]

\* The callback with string_set applied to the live settings, not to a
\* clone of them.
Callback_SetsLive(which, live, topic, message, reply, verdict) ==
    LET stripped == StripPrefix(topic, SettingsPrefix)
        path == IF stripped.rest # <<>> THEN Tail(stripped.rest)
                ELSE stripped.rest
        set == Set(live, path, message)
        h == Handler(which, verdict, set.node, set.node)
    IN  IF ~stripped.some
        THEN [settings |-> live, updated |-> FALSE, path |-> <<>>,
              set_ok |-> FALSE, err |-> "", called |-> FALSE,
              accepted |-> FALSE, resp |-> NoResponse]
        ELSE IF set.ok
        THEN [settings |-> h.settings, updated |-> TRUE, path |-> path,
              set_ok |-> TRUE, err |-> "", called |-> TRUE,
              accepted |-> h.ok,
              resp |-> IF h.ok THEN Response(reply, "ok", <<"OK">>)
                       ELSE Response(reply, "error", <<h.reason>>)]
        ELSE [settings |-> set.node, updated |-> FALSE, path |-> path,
              set_ok |-> FALSE, err |-> set.err, called |-> FALSE,
              accepted |-> FALSE,
              resp |-> Response(reply, "error", DebugErr(set.err))]

\* The callback answering also the messages outside the settings namespace.
Callback_AnswersUnexpected(which, live, topic, message, reply, verdict) ==
    LET stripped == StripPrefix(topic, SettingsPrefix)
        path == IF stripped.rest # <<>> THEN Tail(stripped.rest)
                ELSE stripped.rest
        set == Set(live, path, message)
        h == Handler(which, verdict, live, set.node)
    IN  IF ~stripped.some
        THEN [settings |-> live, updated |-> FALSE, path |-> <<>>,
              set_ok |-> FALSE, err |-> "", called |-> FALSE,
              accepted |-> FALSE,
              resp |-> Response(reply, "error", <<"Unexpected topic">>)]
        ELSE IF set.ok
        THEN [settings |-> h.settings, updated |-> TRUE, path |-> path,
              set_ok |-> TRUE, err |-> "", called |-> TRUE,
              accepted |-> h.ok,
              resp |-> IF h.ok THEN Response(reply, "ok", <<"OK">>)
                       ELSE Response(reply, "error", <<h.reason>>)]
        ELSE [settings |-> live, updated |-> FALSE, path |-> path,
              set_ok |-> FALSE, err |-> set.err, called |-> FALSE,
              accepted |-> FALSE,
              resp |-> Response(reply, "error", DebugErr(set.err))]

\* The body of the callback, for one message.
Callback(which, live, topic, message, reply, verdict) ==
    LET stripped == StripPrefix(topic, SettingsPrefix)
        path == IF stripped.rest # <<>> THEN Tail(stripped.rest)
                ELSE stripped.rest
        set == Set(live, path, message)
        h == Handler(which, verdict, live, set.node)
    IN  IF ~stripped.some
        THEN [settings |-> live, updated |-> FALSE, path |-> <<>>,
              set_ok |-> FALSE, err |-> "", called |-> FALSE,
              accepted |-> FALSE, resp |-> NoResponse]
        ELSE IF set.ok
        THEN [settings |-> h.settings, updated |-> TRUE, path |-> path,
              set_ok |-> TRUE, err |-> "", called |-> TRUE,
              accepted |-> h.ok,
              resp |-> IF h.ok THEN Response(reply, "ok", <<"OK">>)
                       ELSE Response(reply, "error", <<h.reason>>)]
        ELSE [settings |-> live, updated |-> FALSE, path |-> path,
              set_ok |-> FALSE, err |-> set.err, called |-> FALSE,
              accepted |-> FALSE,
              resp |-> Response(reply, "error", DebugErr(set.err))]

\* The match on poll's result with the session reset mapped to Ok(false)
\* but no Reset issued.
PollResult_NoReset(sm, result, was_updated, clock) ==
    LET d0 == [sm |-> sm, panic |-> ""]
    IN  CASE result = "Ok" ->
                 [d |-> d0,
                  ret |-> [kind |-> "Ok", val |-> was_updated, poll |-> result]]
          [] result = "SessionReset" ->
                 [d |-> d0,
                  ret |-> [kind |-> "Ok", val |-> FALSE, poll |-> result]]
          [] OTHER ->
                 [d |-> d0,
                  ret |-> [kind |-> "Err", val |-> FALSE, poll |-> result]]

\* The match on poll's result that ends handle_mqtt_traffic.
PollResult(sm, result, was_updated, clock) ==
    LET d0 == [sm |-> sm, panic |-> ""]
    IN  CASE result = "Ok" ->
                 [d |-> d0,
                  ret |-> [kind |-> "Ok", val |-> was_updated, poll |-> result]]
          [] result = "SessionReset" ->
                 [d |-> Unwrap(d0, "Reset", clock),
                  ret |-> [kind |-> "Ok", val |-> FALSE, poll |-> result]]
          [] OTHER ->
                 [d |-> d0,
                  ret |-> [kind |-> "Err", val |-> FALSE, poll |-> result]]

(***************************************************************************)
(* The session's steps.                                                    *)
(***************************************************************************)
Topic(tail) ==
    SettingsPrefix \o tail

Message(topic, payload, reply) ==
    [topic |-> topic, payload |-> payload, reply |-> reply]

Path_a0 == <<"/", "a", "/", "0">>

Path_a1 == <<"/", "a", "/", "1">>

Path_b == <<"/", "b">>

\* The requests the broker delivers: sets of every leaf, a payload that
\* does not decode, paths that are too short, too long, out of bounds or
\* unknown, an index written with a blank, the bare settings topic, a topic
\* outside the settings namespace, and requests naming a response topic.
InboundMessages ==
    {Message(Topic(Path_a0), <<"0">>, <<>>),
     Message(Topic(Path_a0), <<"1">>, <<>>),
     Message(Topic(Path_a1), <<"1">>, <<>>),
     Message(Topic(Path_b), <<"0">>, <<>>),
     Message(Topic(Path_b), <<"1">>, <<>>),
     Message(Topic(Path_b), <<"1">>, <<"r">>),
     Message(Topic(Path_b), <<"x">>, <<>>),
     Message(Topic(<<"/", "a">>), <<"1">>, <<>>),
     Message(Topic(<<"/", "b", "/", "0">>), <<"1">>, <<>>),
     Message(Topic(<<"/", "a", "/", "2">>), <<"1">>, <<>>),
     Message(Topic(<<"/", "a", "/", " ", "0">>), <<"1">>, <<>>),
     Message(Topic(<<"/", "c">>), <<"1">>, <<"r">>),
     Message(Topic(<<>>), <<"1">>, <<>>),
     Message(Prefix \o <<"/", "x">>, <<"1">>, <<"r">>)}

\* The requests delivered while the connection's life cycle is explored.
LifecycleMessages ==
    {Message(Topic(Path_b), <<"1">>, <<>>),
     Message(Topic(<<"/", "c">>), <<"1">>, <<>>)}

NoTick ==
    [disc |-> FALSE, pre |-> "", ops |-> <<>>, mid |-> <<>>,
     granted |-> FALSE]

NoMsg ==
    [topic |-> <<>>, payload |-> <<>>, reply |-> <<>>, before |-> Leaf(0),
     path |-> <<>>, set_ok |-> FALSE, err |-> "", called |-> FALSE,
     verdict |-> "", resp |-> NoResponse, published |-> FALSE]

NoRet ==
    [kind |-> "None", val |-> FALSE, poll |-> ""]

Machine ==
    [state |-> state, timeout |-> timeout, republish_state |-> republish_state]

\* MqttClient::new(.., settings): the fields of the client, and the
\* assertion on the longest topic.
SessionNew(tree) ==
    /\ state = "Initial"
    /\ timeout = NoTimeout
    /\ republish_state = Zeros(MAX_RECURSION_DEPTH)
    /\ settings = tree
    /\ now = 0
    /\ connected = FALSE
    /\ pc = "idle"
    /\ api = "update"
    /\ updated = FALSE
    /\ nmsgs = 0
    /\ panicked = IF Len(SettingsPrefix) + 1
                       + GetMetadata(tree).max_topic_size
                       <= MAX_TOPIC_LENGTH
                  THEN "" ELSE "assert"
    /\ tick = NoTick
    /\ msg = NoMsg
    /\ tickSets = 0
    /\ tickRejects = 0
    /\ settings0 = tree
    /\ ret = NoRet
    /\ changed = FALSE
    /\ aliveDone = FALSE
    /\ subDone = FALSE
    /\ passLog = <<>>
    /\ subFailed = FALSE
    /\ subscribedAt = NoTimeout
    /\ dropped = "nothing"
    /\ forced = <<>>
    /\ ticks = 0

\* MqttClient::new.
SessionInit ==
    SessionNew(InitialSettings)

\* What a Reset in the present state interrupts.
Interrupted ==
    IF state = "RepublishingSettings" /\ passLog # <<>> THEN "midpass"
    ELSE IF state = "Active" THEN "complete"
    ELSE "nothing"

\* update() or handled_update(handler) is called: the Reset on a lost
\* connection, the dispatch on the state, and the entry into mqtt.poll.
HandledUpdateCall(which, alive_ok, sub_ok, budget) ==
    /\ pc = "idle"
    /\ panicked = ""
    /\     \E d \in {UpdateHead(Machine, settings, connected, alive_ok,
                                sub_ok, budget, now)} :
           LET reset == ~connected
           IN  /\ state' = d.sm.state
               /\ timeout' = d.sm.timeout
               /\ republish_state' = d.sm.republish_state
               /\ panicked' = d.panic
               /\ api' = which
               /\ tick' = [disc |-> ~connected, pre |-> state, ops |-> d.ops,
                           mid |-> <<d.sm>>,
                           granted |-> alive_ok /\ sub_ok /\ budget >= 1]
               /\ aliveDone' =
                      IF reset THEN FALSE
                      ELSE aliveDone
                           \/ \E i \in 1..Len(d.ops) :
                                  /\ d.ops[i] = Op("alive", AliveTopic,
                                                   <<"1">>, TRUE)
               /\ subDone' =
                      IF reset THEN FALSE
                      ELSE subDone
                           \/ \E i \in 1..Len(d.ops) :
                                  /\ d.ops[i] = Op("subscribe",
                                                   SubscribeTopic, <<>>, TRUE)
               /\ passLog' =
                      IF reset \/ (state = "PendingRepublish"
                                   /\ d.sm.state = "RepublishingSettings")
                      THEN <<>>
                      ELSE passLog \o d.paths
               /\ subFailed' = IF reset THEN FALSE ELSE subFailed
               /\ subscribedAt' =
                      IF reset THEN NoTimeout
                      ELSE IF \E i \in 1..Len(d.ops) :
                                  d.ops[i] = Op("subscribe", SubscribeTopic,
                                                <<>>, TRUE)
                      THEN now
                      ELSE subscribedAt
               /\ dropped' = IF reset THEN Interrupted ELSE dropped
    /\ forced' = <<>>
    /\ pc' = "poll"
    /\ updated' = FALSE
    /\ nmsgs' = 0
    /\ msg' = NoMsg
    /\ tickSets' = 0
    /\ tickRejects' = 0
    /\ settings0' = settings
    /\ ret' = NoRet
    /\ changed' = FALSE
    /\ UNCHANGED <<settings, now, connected>>

HandledUpdateWith(which, alive_ok, sub_ok, budget) ==
    HandledUpdateCall(which, alive_ok, sub_ok, budget) /\ UNCHANGED ticks

\* The call, counted.
HandledUpdateCounted ==
    /\ \E alive_ok \in BOOLEAN, sub_ok \in BOOLEAN, budget \in 0..MaxBudget :
           HandledUpdateCall("handled_update", alive_ok, sub_ok, budget)
    /\ ticks' = IF ~connected \/ state = "Initial" THEN 1
                ELSE IF ticks < MaxTicks THEN ticks + 1
                ELSE ticks

HandledUpdate(apis) ==
    \E which \in apis, alive_ok \in BOOLEAN, sub_ok \in BOOLEAN,
       budget \in 0..MaxBudget :
        HandledUpdateWith(which, alive_ok, sub_ok, budget)

\* mqtt.poll delivers one message to the callback.
PollCallback(messages, max) ==
    /\ pc = "poll"
    /\ panicked = ""
    /\ connected
    /\ nmsgs < max
    /\ \E m \in messages, verdict \in {"adopt", "reject"},
          publish_ok \in BOOLEAN :
           \E r \in {Callback(api, settings, m.topic, m.payload, m.reply,
                              verdict)} :
               /\ settings' = r.settings
               /\ updated' = (updated \/ r.updated)
               /\ tickSets' = IF r.set_ok THEN tickSets + 1 ELSE tickSets
               /\ tickRejects' = IF r.called /\ ~r.accepted
                                 THEN tickRejects + 1 ELSE tickRejects
               /\ msg' = [topic |-> m.topic, payload |-> m.payload,
                          reply |-> m.reply, before |-> settings,
                          path |-> r.path, set_ok |-> r.set_ok,
                          err |-> r.err, called |-> r.called,
                          verdict |-> IF r.called /\ api = "handled_update"
                                      THEN verdict ELSE "",
                          resp |-> r.resp,
                          published |-> r.resp.sent /\ publish_ok]
    /\ nmsgs' = nmsgs + 1
    /\ UNCHANGED <<state, timeout, republish_state, now, connected, pc, api,
                   panicked, tick, settings0, ret, changed, aliveDone,
                   subDone, passLog, subFailed, subscribedAt, dropped,
                   forced, ticks>>

\* mqtt.poll returns and handle_mqtt_traffic maps its result; the poll is
\* also where the transport gains or loses its connection.
PollReturn ==
    /\ pc = "poll"
    /\ panicked = ""
    /\ \E result \in {"Ok", "SessionReset", "Other"}, conn \in BOOLEAN :
           \E r \in {PollResult(Machine, result, updated, now)} :
           LET reset == result = "SessionReset"
           IN  /\ state' = r.d.sm.state
               /\ timeout' = r.d.sm.timeout
               /\ republish_state' = r.d.sm.republish_state
               /\ panicked' = r.d.panic
               /\ ret' = r.ret
               /\ connected' = conn
               /\ aliveDone' = IF reset THEN FALSE ELSE aliveDone
               /\ subDone' = IF reset THEN FALSE ELSE subDone
               /\ passLog' = IF reset THEN <<>> ELSE passLog
               /\ subFailed' =
                      IF reset THEN FALSE
                      ELSE subFailed
                           \/ \E i \in 1..Len(tick.ops) :
                                  tick.ops[i] = Op("subscribe",
                                                   SubscribeTopic, <<>>, FALSE)
               /\ subscribedAt' = IF reset THEN NoTimeout ELSE subscribedAt
               /\ dropped' = IF reset THEN Interrupted ELSE dropped
    /\ pc' = "idle"
    /\ changed' = (settings # settings0)
    /\ settings0' = settings
    /\ updated' = FALSE
    /\ nmsgs' = 0
    /\ tick' = NoTick
    /\ msg' = NoMsg
    /\ UNCHANGED <<settings, now, api, tickSets, tickRejects, forced,
                   ticks>>

\* MqttClient::force_republish: the event's refusal is ignored.
ForceRepublish ==
    /\ pc = "idle"
    /\ panicked = ""
    /\ \E r \in {ProcessEvent(Machine, "StartRepublish", now)} :
           /\ state' = r.sm.state
           /\ timeout' = r.sm.timeout
           /\ republish_state' = r.sm.republish_state
           /\ passLog' = IF r.ok THEN <<>> ELSE passLog
    /\ forced' = <<Machine>>
    /\ UNCHANGED <<settings, now, connected, pc, api, updated, nmsgs,
                   panicked, tick, msg, tickSets, tickRejects, settings0, ret,
                   changed, aliveDone, subDone, subFailed, subscribedAt,
                   dropped, ticks>>

\* A second passes on the clock.
ClockTick ==
    /\ pc = "idle"
    /\ panicked = ""
    /\ now < MaxClock
    /\ now' = now + 1
    /\ UNCHANGED <<state, timeout, republish_state, settings, connected, pc,
                   api, updated, nmsgs, panicked, tick, msg, tickSets,
                   tickRejects, settings0, ret, changed, aliveDone, subDone,
                   passLog, subFailed, subscribedAt, dropped, forced,
                   ticks>>

(***************************************************************************)
(* Specifications.                                                         *)
(***************************************************************************)
\* The variables a specification does not use keep these values.
TreeIdle ==
    /\ t_tree = Leaf(0)
    /\ t_index = <<>>
    /\ t_cap = 0
    /\ t_seen = <<>>
    /\ t_out = NoTreeOut
    /\ t_sets = 0

ArrayIdle ==
    /\ a_self = Leaf(0)
    /\ a_out = NoArrayOut
    /\ a_index = <<>>
    /\ a_topic = <<>>

SessionIdle ==
    /\ state = "Initial"
    /\ timeout = NoTimeout
    /\ republish_state = <<>>
    /\ settings = Leaf(0)
    /\ now = 0
    /\ connected = FALSE
    /\ pc = "idle"
    /\ api = "update"
    /\ updated = FALSE
    /\ nmsgs = 0
    /\ panicked = ""
    /\ tick = NoTick
    /\ msg = NoMsg
    /\ tickSets = 0
    /\ tickRejects = 0
    /\ settings0 = Leaf(0)
    /\ ret = NoRet
    /\ changed = FALSE
    /\ aliveDone = FALSE
    /\ subDone = FALSE
    /\ passLog = <<>>
    /\ subFailed = FALSE
    /\ subscribedAt = NoTimeout
    /\ dropped = "nothing"
    /\ forced = <<>>
    /\ ticks = 0

\* The session's life cycle: connection, liveness, subscription, republish,
\* with the clock running and a few requests arriving.
Init ==
    SessionInit /\ TreeIdle /\ ArrayIdle

Next ==
    \/ HandledUpdate({"handled_update"}) /\ UNCHANGED <<treeVars, arrayVars>>
    \/ PollCallback(LifecycleMessages, MaxLifecycleMsgs)
           /\ UNCHANGED <<treeVars, arrayVars>>
    \/ PollReturn /\ UNCHANGED <<treeVars, arrayVars>>
    \/ ForceRepublish /\ UNCHANGED <<treeVars, arrayVars>>
    \/ ClockTick /\ UNCHANGED <<treeVars, arrayVars>>

Spec ==
    Init /\ [][Next]_vars

\* The session serving requests through update() and handled_update(): the
\* same steps, with all of InboundMessages arriving, the clock standing, and
\* a transport that accepts the liveness publish and the subscription and
\* either refuses to publish or takes a whole republish pass.
NextTraffic ==
    \/ (\E which \in {"update", "handled_update"}, budget \in {0, MaxBudget} :
            HandledUpdateWith(which, TRUE, TRUE, budget))
           /\ UNCHANGED <<treeVars, arrayVars>>
    \/ PollCallback(InboundMessages, MaxMsgs)
           /\ UNCHANGED <<treeVars, arrayVars>>
    \/ PollReturn /\ UNCHANGED <<treeVars, arrayVars>>
    \/ ForceRepublish /\ UNCHANGED <<treeVars, arrayVars>>

SpecTraffic ==
    Init /\ [][NextTraffic]_vars

\* The life cycle under a host that keeps calling handled_update (each call
\* returns) while time passes; nobody calls force_republish.
NextLive ==
    \/ HandledUpdate({"handled_update"}) /\ UNCHANGED <<treeVars, arrayVars>>
    \/ PollReturn /\ UNCHANGED <<treeVars, arrayVars>>
    \/ ClockTick /\ UNCHANGED <<treeVars, arrayVars>>

SpecLive ==
    /\ Init
    /\ [][NextLive]_vars
    /\ WF_vars(HandledUpdate({"handled_update"})
                   /\ UNCHANGED <<treeVars, arrayVars>>)
    /\ WF_vars(PollReturn /\ UNCHANGED <<treeVars, arrayVars>>)
    /\ WF_vars(ClockTick /\ UNCHANGED <<treeVars, arrayVars>>)

\* Trees a client is constructed with: records nested `depth` deep over one
\* leaf, and a record whose one field has the longest name the assertion
\* of MqttClient::new lets through, over an array of one element.
RECURSIVE NestedRecord(_)
NestedRecord(depth) ==
    IF depth = 0 THEN Leaf(0)
    ELSE Record(<<Txt_a>>, <<NestedRecord(depth - 1)>>)

LongName ==
    [i \in 1..(MAX_TOPIC_LENGTH - Len(SettingsPrefix) - 1) |-> "x"]

NewSettings ==
    {InitialSettings,
     NestedRecord(MAX_RECURSION_DEPTH - 1),
     NestedRecord(MAX_RECURSION_DEPTH),
     Record(<<LongName>>, <<ArrayOf(2, Leaf(0))>>),
     Record(<<LongName>>, <<ArrayOf(1, Leaf(0))>>)}

\* The session's life cycle for each of these trees.
InitNew ==
    (\E tree \in NewSettings : SessionNew(tree)) /\ TreeIdle /\ ArrayIdle

NextNew ==
    \/ HandledUpdate({"handled_update"}) /\ UNCHANGED <<treeVars, arrayVars>>
    \/ PollReturn /\ UNCHANGED <<treeVars, arrayVars>>
    \/ ForceRepublish /\ UNCHANGED <<treeVars, arrayVars>>
    \/ ClockTick /\ UNCHANGED <<treeVars, arrayVars>>

SpecNew ==
    InitNew /\ [][NextNew]_vars

\* The life cycle with the calls of handled_update counted.
NextTicks ==
    \/ HandledUpdateCounted /\ UNCHANGED <<treeVars, arrayVars>>
    \/ PollReturn /\ UNCHANGED <<treeVars, arrayVars>>
    \/ ForceRepublish /\ UNCHANGED <<treeVars, arrayVars>>
    \/ ClockTick /\ UNCHANGED <<treeVars, arrayVars>>

SpecTicks ==
    Init /\ [][NextTicks]_vars

\* The path iterator and the metadata, over the trees of Shapes.
InitTree ==
    TreeInit /\ SessionIdle /\ ArrayIdle

NextTree ==
    \/ TreeNext /\ UNCHANGED <<arrayVars, sessionVars>>
    \/ TreeRestart /\ UNCHANGED <<arrayVars, sessionVars>>
    \/ TreeGetMetadata /\ UNCHANGED <<arrayVars, sessionVars>>
    \/ TreeSet /\ UNCHANGED <<arrayVars, sessionVars>>

SpecTree ==
    InitTree /\ [][NextTree]_vars

\* set and get on arrays of leaves.
InitArray ==
    ArrayInit /\ SessionIdle /\ TreeIdle

NextArray ==
    \/ ArraySet /\ UNCHANGED <<treeVars, sessionVars>>
    \/ ArrayGet /\ UNCHANGED <<treeVars, sessionVars>>

SpecArray ==
    InitArray /\ [][NextArray]_vars

\* Arrays enumerated by direct calls of recurse_paths.
InitPaths ==
    PathsInit /\ SessionIdle /\ TreeIdle

NextPaths ==
    ArrayRecurse /\ UNCHANGED <<treeVars, sessionVars>>

SpecPaths ==
    InitPaths /\ [][NextPaths]_vars

(***************************************************************************)
(* Reference notions the properties are stated with.                       *)
(***************************************************************************)
IsPrefixOf(p, q) ==
    Len(p) <= Len(q) /\ p = SubSeq(q, 1, Len(p))

HasOp(ops, kind) ==
    \E i \in 1..Len(ops) : ops[i].kind = kind

RECURSIVE LeafValues(_)
RECURSIVE KidValuesFrom(_, _)

KidValuesFrom(node, k) ==
    IF k > Len(node.kids) THEN <<>>
    ELSE LeafValues(node.kids[k]) \o KidValuesFrom(node, k + 1)

\* The values of the leaves of a tree, in the order of LeafPaths.
LeafValues(node) ==
    IF node.kind \in {"array", "record"} THEN KidValuesFrom(node, 1)
    ELSE <<node.val>>

RECURSIVE WithoutBlanks(_)
WithoutBlanks(s) ==
    IF s = <<>> THEN <<>>
    ELSE IF Head(s) \in Whitespace THEN WithoutBlanks(Tail(s))
    ELSE <<Head(s)>> \o WithoutBlanks(Tail(s))

\* The number a payload of the model encodes.
Decoded(payload) ==
    CHOOSE v \in 0..9 : FmtUsize(v) = payload

\* The position, among the leaves of `tree`, of the leaf a path addresses
\* (0 when it addresses none).
LeafAt(tree, path) ==
    LET all == LeafPaths(tree)
    IN  IF \E j \in 1..Len(all) : all[j] = WithoutBlanks(path)
        THEN CHOOSE j \in 1..Len(all) : all[j] = WithoutBlanks(path)
        ELSE 0

\* The path a topic of the settings namespace addresses.
PathOf(topic) ==
    SubSeq(topic, Len(SettingsPrefix) + 2, Len(topic))

InNamespace(topic) ==
    IsPrefixOf(SettingsPrefix, topic)

\* The error the set of a request of InboundMessages must fail with ("" when
\* it must succeed), for the settings struct { a: [u32; 2], b: u32 }.
ExpectedError(topic, payload) ==
    CASE ~InNamespace(topic) -> ""
      [] PathOf(topic) = <<"a">> -> "PathTooShort"
      [] PathOf(topic) = <<"b", "/", "0">> -> "PathTooLong"
      [] PathOf(topic) = <<"a", "/", "2">> -> "BadIndex"
      [] PathOf(topic) = <<"c">> -> "MissingField"
      [] PathOf(topic) = <<>> -> "MissingField"
      [] payload = <<"x">> -> "DecodeError"
      [] OTHER -> ""

MustSucceed(topic, payload) ==
    InNamespace(topic) /\ ExpectedError(topic, payload) = ""

IsBaseTen(s) ==
    s # <<>> /\ \A i \in 1..Len(s) : s[i] \in DigitSet

RECURSIVE BaseTenValue(_)
BaseTenValue(s) ==
    IF s = <<>> THEN 0
    ELSE 10 * BaseTenValue(SubSeq(s, 1, Len(s) - 1)) + DigitVal(s[Len(s)])

\* The number of segments of a path.
NumSegments(p) ==
    IF p = <<>> THEN 0 ELSE Len(Split(p))

(***************************************************************************)
(* Properties.                                                             *)
(***************************************************************************)

\* C1.  Within one republish pass the leaves are published exactly once
\* and in preorder, whatever can_publish refuses: while the pass runs, the
\* paths published since start_republish are a prefix of the tree's leaf
\* paths and the iterator's next path is the first leaf not yet published;
\* once the pass is complete (Active) they are exactly the tree's leaf
\* paths.
Thm_C1_RepublishOnceInOrder ==
    LET all == LeafPaths(settings)
        r == IterNext(settings, republish_state, MAX_TOPIC_LENGTH)
    IN  /\ state = "RepublishingSettings" =>
               /\ IsPrefixOf(passLog, all)
               /\ IF Len(passLog) < Len(all)
                  THEN r.some /\ r.topic = all[Len(passLog) + 1]
                  ELSE ~r.some
        /\ state = "Active" => passLog = all

\* A pass finished by a tick that published the last leaf only: the leaves
\* before it went out in earlier ticks, each cut short by a refusal.
Wit_C1_PassResumedAndCompleted ==
    /\ pc = "poll"
    /\ state = "Active"
    /\ Len(tick.ops) = 1
    /\ tick.ops[1].topic = SettingsPrefix \o Path_b
    /\ passLog = LeafPaths(settings)

\* C2.  When the transport reports disconnected at the start of a call of
\* handled_update, in whatever state: Reset is accepted, the state after
\* the dispatch is Initial, and the dispatch publishes nothing and
\* subscribes to nothing.
Thm_C2_DisconnectResets ==
    pc = "poll" /\ tick.disc =>
        /\ panicked = ""
        /\ tick.mid[1].state = "Initial"
        /\ state = "Initial"
        /\ tick.ops = <<>>

Wit_C2_DisconnectWhileRepublishing ==
    /\ pc = "poll"
    /\ tick.disc
    /\ tick.pre = "RepublishingSettings"
    /\ state = "Initial"

\* C3.  In every connection epoch a subscription is issued only after "1"
\* was published to <prefix>/alive in that epoch, and a leaf is republished
\* only after a subscription succeeded in that epoch.
Thm_C3_AliveSubscribeRepublishOrder ==
    pc = "poll" =>
        /\ HasOp(tick.ops, "subscribe") => aliveDone
        /\ HasOp(tick.ops, "leaf") => aliveDone /\ subDone

Wit_C3_LeafAfterSubscribe ==
    /\ pc = "poll"
    /\ HasOp(tick.ops, "leaf")
    /\ aliveDone
    /\ subDone

\* C4.  handled_update returns Ok(true) exactly when the live settings
\* changed during the call; in particular it returns Ok(false) when every
\* set of the call was rejected by the handler and the live settings were
\* left untouched.  (Stated here in that particular case.)
Claim_C4_RejectedSetsReturnFalse ==
    /\ pc = "idle"
    /\ ret.kind = "Ok"
    /\ tickSets >= 1
    /\ tickRejects = tickSets
    /\ ~changed
    => ret.val = FALSE

\* C5.  When the set of an inbound message fails on the candidate, the live
\* settings are as before the message, the handler is not invoked, an error
\* response carrying the error kind is published, and the state machine is
\* as the dispatch left it.
Thm_C5_FailedSetLeavesSettings ==
    pc = "poll" /\ ExpectedError(msg.topic, msg.payload) # "" =>
        /\ ~msg.set_ok
        /\ msg.err = ExpectedError(msg.topic, msg.payload)
        /\ settings = msg.before
        /\ ~msg.called
        /\ msg.resp.sent
        /\ msg.resp.code = "error"
        /\ \E i \in 1..Len(msg.resp.msg) : msg.resp.msg[i] = msg.err
        /\ Machine = tick.mid[1]

Wit_C5_BadIndexAnswered ==
    /\ pc = "poll"
    /\ msg.err = "BadIndex"
    /\ msg.resp.code = "error"
    /\ settings = msg.before

\* C6.  When the set succeeds on the candidate and the validator rejects
\* it, the live settings are as before the message and the response is an
\* error response carrying the validator's reason.
Thm_C6_RejectionLeavesSettings ==
    pc = "poll" /\ msg.verdict = "reject" =>
        /\ msg.set_ok
        /\ settings = msg.before
        /\ msg.resp.sent
        /\ msg.resp.code = "error"
        /\ msg.resp.msg = <<RejectReason>>

\* A rejected set that would have changed the live settings.
Wit_C6_RejectedChange ==
    /\ pc = "poll"
    /\ msg.verdict = "reject"
    /\ msg.resp.msg = <<RejectReason>>
    /\ Set(msg.before, msg.path, msg.payload).node # msg.before
    /\ settings = msg.before

\* The part of C7 about one message: under update(), a message whose set
\* must succeed leaves the live settings equal to those before it with the
\* addressed leaf holding the decoded value, and is answered ok.  Each
\* message is applied to the settings the one before it left.
C7_EachSetAdopted ==
    pc = "poll" /\ api = "update" /\ MustSucceed(msg.topic, msg.payload) =>
        LET j == LeafAt(msg.before, PathOf(msg.topic))
        IN  /\ msg.set_ok
            /\ j # 0
            /\ LeafPaths(settings) = LeafPaths(msg.before)
            /\ LeafValues(settings) =
                   [LeafValues(msg.before) EXCEPT ![j] = Decoded(msg.payload)]
            /\ msg.resp.sent
            /\ msg.resp.code = "ok"

Claim_C8_BadIndexIffNotAnIndex ==
    a_out.op \in {"set", "get"} /\ a_out.parts # <<>> =>
        LET s == Head(a_out.parts)
            N == Len(a_out.before.kids)
            isIndex == IsBaseTen(s) /\ BaseTenValue(s) < N
            badIndex == ~a_out.ok /\ a_out.err = "BadIndex"
            elem == a_out.before.kids[BaseTenValue(s) + 1]
            set == LeafStringSet(elem, Tail(a_out.parts), a_out.value)
            get == LeafStringGet(elem, Tail(a_out.parts))
        IN  /\ badIndex <=> ~isIndex
            /\ badIndex => a_self = a_out.before
            /\ isIndex /\ a_out.op = "set" =>
                   /\ a_out.ok = set.ok /\ a_out.err = set.err
                   /\ a_self = [a_out.before EXCEPT
                                   !.kids[BaseTenValue(s) + 1] = set.node]
            /\ isIndex /\ a_out.op = "get" =>
                   /\ a_out.ok = get.ok /\ a_out.err = get.err
                   /\ a_out.data = get.data

\* C9.  An array of N >= 1 children with metadata c has max_depth =
\* 1 + c.max_depth and max_topic_size = digits(N-1) + sep + c.max_topic_size,
\* digits(k) being the number of decimal digits of k (digits(0) = 1) and sep
\* being 0 when c.max_topic_size = 0, 1 otherwise.
Claim_C9_ArrayMetadata ==
    t_out.op = "metadata" /\ t_tree.kind = "array" =>
        LET c == GetMetadata(t_tree.kids[1])
            N == Len(t_tree.kids)
            sep == IF c.max_topic_size = 0 THEN 0 ELSE 1
        IN  /\ t_out.meta.max_depth = 1 + c.max_depth
            /\ t_out.meta.max_topic_size =
                   Len(FmtUsize(N - 1)) + sep + c.max_topic_size

\* C10.  For every tree and every path p its enumeration produces, the
\* tree's metadata has max_topic_size >= len(p) and max_depth >= the number
\* of segments of p, plus one.
Claim_C10_MetadataBoundsPaths ==
    t_out.op = "next" /\ t_out.some =>
        /\ GetMetadata(t_tree).max_topic_size >= Len(t_out.topic)
        /\ GetMetadata(t_tree).max_depth >= NumSegments(t_out.topic) + 1

\* C11.  Enumeration never reaches a panic (unreachable!) when the cursor,
\* all zero at the start of the pass, has a length >= the tree's max_depth
\* and the topic buffer a capacity >= the tree's max_topic_size, a capacity
\* equal to max_topic_size included.
Claim_C11_EnumerationNeverPanics ==
    /\ Len(t_index) >= GetMetadata(t_tree).max_depth
    /\ t_cap >= GetMetadata(t_tree).max_topic_size
    => t_out.panic = ""

\* The first segment of a path, as a number.
FirstIndex(p) ==
    BaseTenValue(Head(Split(p)))

Claim_C13_NoResubscribe ==
    pc = "poll" /\ HasOp(tick.ops, "subscribe") => ~subFailed

\* Again and again there is a call of handled_update in which the transport
\* accepts the liveness publish and the subscription and can publish.
TransportGrants == []<>(pc = "poll" /\ tick.granted)

\* From some call on: the transport stays connected, poll reports no error,
\* and the clock is past the republish timeout.
StaysConnected == <>[]connected

PollStaysOk == <>[](ret.poll \in {"", "Ok"})

ClockPassesTimeout == <>[](timeout # NoTimeout => now > timeout)

\* C14.  If from some call on the transport stays connected, the liveness
\* publish and the subscription eventually succeed, the clock passes the
\* republish timeout, can_publish holds infinitely often, force_republish
\* is not called and poll reports no error, then the session eventually is
\* in Active, having published "1" to <prefix>/alive, subscribed and
\* published each leaf exactly once, and stays there.
Thm_C14_EventuallyActive ==
    StaysConnected /\ PollStaysOk /\ ClockPassesTimeout /\ TransportGrants
    => <>[](/\ state = "Active"
            /\ aliveDone
            /\ subDone
            /\ passLog = LeafPaths(settings))

Wit_C14_ActiveAfterFullTrace ==
    /\ pc = "idle"
    /\ state = "Active"
    /\ connected
    /\ ret.poll = "Ok"
    /\ now > timeout
    /\ aliveDone
    /\ subDone
    /\ passLog = LeafPaths(settings)

\* C15.  When the poll of a call returns a session-reset error, the call
\* returns Ok(false) and the state is Initial afterwards, whatever it was;
\* when the poll returns another error, the call returns that error and the
\* machine is as the dispatch of that call left it.
Thm_C15_PollErrors ==
    [][pc = "poll" /\ pc' = "idle" =>
          /\ ret'.poll = "SessionReset" =>
                 /\ ret'.kind = "Ok"
                 /\ ret'.val = FALSE
                 /\ state' = "Initial"
                 /\ panicked' = ""
          /\ ret'.poll = "Other" =>
                 /\ ret'.kind = "Err"
                 /\ Machine' = tick.mid[1]
                 /\ panicked' = ""]_vars

\* A session reset reported while the session was in Active.
Wit_C15_SessionResetFromActive ==
    /\ pc = "idle"
    /\ ret.poll = "SessionReset"
    /\ ret.kind = "Ok"
    /\ ~ret.val
    /\ state = "Initial"
    /\ dropped = "complete"
    /\ ~aliveDone

\* C16.  For every inbound message: when its topic does not start with
\* <prefix>/settings, no response is published, the handler is not invoked
\* and the live settings are unchanged; when it does, one response publish
\* is attempted (at most once, not retained), whether the set succeeded,
\* failed or was rejected, addressed to the request's reply topic or to
\* <prefix>/log when it names none; and whether or not that publish
\* succeeds, the state machine is as the dispatch left it.
Thm_C16_OneResponsePerRequest ==
    pc = "poll" /\ nmsgs >= 1 =>
        /\ ~InNamespace(msg.topic) =>
               /\ ~msg.resp.sent
               /\ ~msg.published
               /\ ~msg.called
               /\ settings = msg.before
        /\ InNamespace(msg.topic) =>
               /\ msg.resp.sent
               /\ msg.resp.topic = IF msg.reply # <<>> THEN msg.reply
                                   ELSE LogTopic
               /\ msg.resp.qos = "AtMostOnce"
               /\ ~msg.resp.retain
               /\ msg.resp.code = IF msg.set_ok /\ msg.verdict # "reject"
                                  THEN "ok" ELSE "error"
        /\ Machine = tick.mid[1]
        /\ panicked = ""

\* A rejected request that named a reply topic, whose response could not
\* be published.
Wit_C16_ResponseLost ==
    /\ pc = "poll"
    /\ msg.verdict = "reject"
    /\ msg.reply = <<"r">>
    /\ msg.resp.topic = <<"r">>
    /\ ~msg.published

\* A record with one field whose child is a leaf or an atomic subtree.
SingleField(tree) ==
    /\ tree.kind = "record"
    /\ Len(tree.kids) = 1
    /\ tree.kids[1].kind \in {"leaf", "atomic"}

\* C17.  A leaf and an atomic subtree report the metadata (0, 1) whatever
\* their interior; a record with a single field f whose child is a leaf or
\* an atomic subtree (even one that contains an array) reports max_depth 2
\* and max_topic_size len(f); a set of the atomic child at path f either
\* replaces its whole value by the payload's (read back at f, it is the
\* payload) or fails and leaves the tree; no path reaches inside it.
Thm_C17_AtomicCountsAsLeaf ==
    /\ t_out.op = "metadata" /\ t_tree.kind \in {"leaf", "atomic"} =>
           t_out.meta = [max_topic_size |-> 0, max_depth |-> 1]
    /\ t_out.op = "metadata" /\ SingleField(t_tree) =>
           t_out.meta = [max_topic_size |-> Len(t_tree.names[1]),
                         max_depth |-> 2]
    /\ t_out.op = "set" /\ SingleField(t_out.before)
          /\ t_out.before.kids[1].kind = "atomic" =>
           /\ t_out.path = t_out.before.names[1] /\ t_out.ok =>
                  /\ Get(t_tree, t_out.path).ok
                  /\ Get(t_tree, t_out.path).data = WithoutBlanks(t_out.value)
                  /\ \A i \in 1..Len(t_tree.kids[1].kids) :
                         t_tree.kids[1].kids[i].val # 0
           /\ t_out.path # t_out.before.names[1] => ~t_out.ok
           /\ ~t_out.ok => t_tree = t_out.before

\* The atomic struct holding an array, set as a whole at its field's path.
Wit_C17_AtomicArrayReplaced ==
    /\ t_out.op = "set"
    /\ t_out.ok
    /\ t_out.path = Txt_data
    /\ t_out.before = Record(<<Txt_data>>, <<AtomicOf(<<Leaf(0), Leaf(0)>>)>>)
    /\ t_tree = Record(<<Txt_data>>, <<AtomicOf(<<Leaf(2), Leaf(1)>>)>>)

\* C18.  A call in PendingRepublish (the connection being up) issues
\* StartRepublish exactly when the clock is past the stored timeout, and the
\* stored timeout is the clock at the latest Subscribed of this connection
\* plus REPUBLISH_TIMEOUT_SECONDS, never one of an earlier connection;
\* otherwise the state stays PendingRepublish.  In both cases the call
\* publishes no setting.
Thm_C18_RepublishAfterTimeout ==
    /\ state = "PendingRepublish" =>
           /\ subscribedAt # NoTimeout
           /\ timeout = subscribedAt + REPUBLISH_TIMEOUT_SECONDS
    /\ pc = "poll" /\ ~tick.disc /\ tick.pre = "PendingRepublish" =>
           /\ subscribedAt # NoTimeout
           /\ tick.mid[1].timeout = subscribedAt + REPUBLISH_TIMEOUT_SECONDS
           /\ tick.ops = <<>>
           /\ IF now > subscribedAt + REPUBLISH_TIMEOUT_SECONDS
              THEN /\ tick.mid[1].state = "RepublishingSettings"
                   /\ tick.mid[1].republish_state = Zeros(MAX_RECURSION_DEPTH)
              ELSE tick.mid[1].state = "PendingRepublish"

\* A second connection, subscribed one second after the first: at the
\* moment the first connection's timeout has passed, the call waits.
Wit_C18_StaleTimeoutNotUsed ==
    /\ pc = "poll"
    /\ ~tick.disc
    /\ tick.pre = "PendingRepublish"
    /\ state = "PendingRepublish"
    /\ dropped = "complete"
    /\ subscribedAt = 1
    /\ now = 1 + REPUBLISH_TIMEOUT_SECONDS

\* C19.  Right after force_republish: called in PendingRepublish,
\* RepublishingSettings or Active, the state is RepublishingSettings with an
\* all-zero cursor (the timeout is as it was); called in Initial,
\* ConnectedToBroker or PendingSubscribe, state, cursor and timeout are as
\* they were; and in no state does the call fail.
Thm_C19_ForceRepublish ==
    forced # <<>> =>
        /\ panicked = ""
        /\ forced[1].state \in {"PendingRepublish", "RepublishingSettings",
                                "Active"} =>
               /\ state = "RepublishingSettings"
               /\ republish_state = Zeros(MAX_RECURSION_DEPTH)
               /\ timeout = forced[1].timeout
        /\ forced[1].state \in {"Initial", "ConnectedToBroker",
                                "PendingSubscribe"} =>
               Machine = forced[1]

\* force_republish called in the middle of a pass.
Wit_C19_ForcedMidPass ==
    /\ forced # <<>>
    /\ forced[1].state = "RepublishingSettings"
    /\ forced[1].republish_state # Zeros(MAX_RECURSION_DEPTH)
    /\ state = "RepublishingSettings"
    /\ republish_state = Zeros(MAX_RECURSION_DEPTH)

\* C20.  Every step that brings the session into RepublishingSettings from
\* another state leaves the cursor all zeros and no leaf published yet in
\* the pass; every step that resets the session (a lost connection, in the
\* middle of a pass or after a complete one) leaves neither the liveness
\* publish nor the subscription done, and a pass runs only when both were
\* done anew; and the leaves a pass publishes are the tree's leaf paths
\* from the first one on.
Thm_C20_PassStartsFromFirstLeaf ==
    [][/\ state # "RepublishingSettings" /\ state' = "RepublishingSettings" =>
              /\ republish_state' = Zeros(MAX_RECURSION_DEPTH)
              /\ passLog' = <<>>
       /\ state # "Initial" /\ state' = "Initial" =>
              /\ ~aliveDone'
              /\ ~subDone'
              /\ passLog' = <<>>
       /\ state' \in {"RepublishingSettings", "Active"} =>
              /\ aliveDone'
              /\ subDone'
              /\ IsPrefixOf(passLog', LeafPaths(settings'))]_vars

\* A pass cut by a lost connection; in the next connection, once the
\* timeout has passed, the pass has published the first leaf again.
Wit_C20_RestartedAfterDrop ==
    /\ dropped = "midpass"
    /\ forced = <<>>
    /\ state = "RepublishingSettings"
    /\ subscribedAt # NoTimeout
    /\ now > subscribedAt + REPUBLISH_TIMEOUT_SECONDS
    /\ passLog = <<LeafPaths(settings)[1]>>

\* C21.  For every settings tree that passes the assertion of
\* MqttClient::new, no call in RepublishingSettings panics: neither the
\* construction of the path iterator over the cursor of
\* MAX_RECURSION_DEPTH entries, nor the enumeration, nor the building of
\* <prefix>/settings/<path> in MAX_TOPIC_LENGTH bytes.
Claim_C21_RepublishNeverPanics ==
    pc = "poll" /\ tick.pre = "RepublishingSettings" => panicked = ""

\* The same for the trees no deeper than the cursor and without an array of
\* one element.
C21_WithinDepthAndDigits ==
    settings \in {InitialSettings, NestedRecord(MAX_RECURSION_DEPTH - 1)}
        /\ pc = "poll" /\ tick.pre = "RepublishingSettings"
    => panicked = ""

\* How far a state is along the life cycle.
StateRank(s) ==
    CASE s = "Initial" -> 0
      [] s = "ConnectedToBroker" -> 1
      [] s = "PendingSubscribe" -> 2
      [] s = "PendingRepublish" -> 3
      [] s = "RepublishingSettings" -> 4
      [] s = "Active" -> 5

\* What C22 says of one call's dispatch: at most one forward transition;
\* nothing published by the call that finds the session in Initial; no
\* leaf published by the call that starts the republish.
C22_OneTransitionPerTick ==
    pc = "poll" =>
        /\ tick.disc => tick.mid[1].state = "Initial" /\ tick.ops = <<>>
        /\ ~tick.disc =>
               StateRank(tick.mid[1].state) - StateRank(tick.pre) \in {0, 1}
        /\ tick.pre = "Initial" => tick.ops = <<>>
        /\ tick.pre = "PendingRepublish" =>
               /\ ~HasOp(tick.ops, "leaf")
               /\ tick.mid[1].state = "RepublishingSettings" => ticks >= 4
        /\ HasOp(tick.ops, "leaf") => tick.pre = "RepublishingSettings"

\* C22 as stated: one forward transition per call at most, and four calls
\* (Connected, IndicatedLife, Subscribed, StartRepublish) before the call
\* that republishes the first leaf.
Claim_C22_FourTicksBeforeFirstLeaf ==
    /\ C22_OneTransitionPerTick
    /\ pc = "poll" /\ HasOp(tick.ops, "leaf") => ticks >= 5

\* C22, amended.  One forward transition per call at most; the call that
\* finds the session in Initial publishes nothing; the call that starts the
\* republish on the timeout publishes no leaf and is the fourth call since
\* Initial or a later one; a leaf is republished in the fourth call since
\* Initial or a later one (the fourth when force_republish started the pass
\* after the subscription, the fifth otherwise).
Thm_C22_ThreeTicksBeforeFirstLeaf ==
    /\ C22_OneTransitionPerTick
    /\ pc = "poll" /\ HasOp(tick.ops, "leaf") => ticks >= 4

\* The first leaf republished in the fourth call since Initial.
Wit_C22_LeafInFourthTick ==
    /\ pc = "poll"
    /\ HasOp(tick.ops, "leaf")
    /\ tick.pre = "RepublishingSettings"
    /\ ticks = 4

\* C23.  When an array's recurse_paths returns None, the topic buffer is
\* what it was on entry to the call, the array's own cursor entry is N and
\* the deeper entries are zero; a further call with that cursor returns
\* None again and leaves the cursor and the buffer as they are.
Thm_C23_ExhaustedArrayIsQuiet ==
    a_out.op = "paths" /\ ~a_out.some =>
        /\ a_out.panic = ""
        /\ a_out.topic = a_topic
        /\ a_index[1] = Len(a_self.kids)
        /\ \A i \in 2..Len(a_index) : a_index[i] = 0
        /\ a_out.again => a_index = a_out.index

\* An array of arrays, entered with a name in the buffer, asked once more
\* after it was exhausted.
Wit_C23_CalledAgainAfterNone ==
    /\ a_out.op = "paths"
    /\ a_out.again
    /\ ~a_out.some
    /\ a_self = ArrayOf(2, ArrayOf(2, Leaf(0)))
    /\ a_topic = Txt_a
    /\ a_out.topic = Txt_a
    /\ a_index = a_out.index

====
